---- MODULE Spec2Model ----
(***************************************************************************)
(* The scheduled nodegroup scaler (infra/lambda/scale_nodegroup/handler.py) *)
(* of the wildfire data-engineering pipeline: on_event coerces the three    *)
(* capacity fields of the scheduled payload, widens the maximum to the      *)
(* desired count, issues one eks.update_nodegroup_config call and returns   *)
(* what it sent.  Invocations run in separate Lambda environments and share *)
(* nothing but the nodegroup's scaling configuration.                       *)
(***************************************************************************)
EXTENDS Integers, Sequences, FiniteSets, TLC

\* ------------------------------------------------------------------ bounds
\* Integers carried by a payload field range over -1..MaxCap.
MaxCap == 3
\* Number of invocations that overlap in time.
NumInvocations == 2

Invocations == 1..NumInvocations

\* ------------------------------------------------- payload values (JSON)
\* A payload field after json decoding: absent/None, an int, a bool (an int
\* subclass, 0 or 1), a float (held as a number of halves, so 5 is 2.5), the
\* floats inf and nan, a str (a sequence of one-character strings), a dict
\* or a list.
Raw(tag, n, s) == [tag |-> tag, n |-> n, s |-> s]
Absent == Raw("absent", 0, <<>>)
IntV(k) == Raw("int", k, <<>>)
FloatV(halves) == Raw("float", halves, <<>>)
InfV == Raw("inf", 0, <<>>)
NanV == Raw("nan", 0, <<>>)
StrV(chars) == Raw("str", 0, chars)
BoolV(b) == Raw("bool", b, <<>>)
DictV == Raw("dict", 0, <<>>)
ListV == Raw("list", 0, <<>>)

DigitVal == ("0" :> 0) @@ ("1" :> 1) @@ ("2" :> 2) @@ ("3" :> 3) @@ ("4" :> 4)
            @@ ("5" :> 5) @@ ("6" :> 6) @@ ("7" :> 7) @@ ("8" :> 8) @@ ("9" :> 9)

IsDigit(c) == c \in DOMAIN DigitVal

\* str.strip(): leading and trailing whitespace removed.
RECURSIVE StripLeft(_)
StripLeft(s) == IF s # <<>> /\ Head(s) = " " THEN StripLeft(Tail(s)) ELSE s

RECURSIVE StripRight(_)
StripRight(s) ==
    IF s # <<>> /\ s[Len(s)] = " " THEN StripRight(SubSeq(s, 1, Len(s) - 1)) ELSE s

Strip(s) == StripRight(StripLeft(s))

\* The digits of an integer literal: digits, single underscores only between
\* two digits.
DigitsOk(b) ==
    /\ b # <<>>
    /\ IsDigit(b[1])
    /\ IsDigit(b[Len(b)])
    /\ \A i \in 1..Len(b) : IsDigit(b[i]) \/ b[i] = "_"
    /\ \A i \in 1..(Len(b) - 1) : ~(b[i] = "_" /\ b[i + 1] = "_")

RECURSIVE DigitsValue(_, _)
DigitsValue(b, acc) ==
    IF b = <<>> THEN acc
    ELSE IF Head(b) = "_" THEN DigitsValue(Tail(b), acc)
    ELSE DigitsValue(Tail(b), 10 * acc + DigitVal[Head(b)])

Ok(v) == [ok |-> TRUE, v |-> v, err |-> "none"]
Fail(e) == [ok |-> FALSE, v |-> 0, err |-> e]

\* int(str): whitespace stripped, an optional sign, then the digits;
\* anything else raises ValueError.
ParseInt(s) ==
    LET t == Strip(s)
        signed == t # <<>> /\ Head(t) \in {"-", "+"}
        body == IF signed THEN Tail(t) ELSE t
    IN  IF ~DigitsOk(body) THEN Fail("ValueError")
        ELSE IF signed /\ Head(t) = "-" THEN Ok(0 - DigitsValue(body, 0))
        ELSE Ok(DigitsValue(body, 0))

\* A variant that rounds down (math.floor) instead of truncating.
FloorHalves(h) == IF h >= 0 THEN h \div 2 ELSE 0 - ((1 - h) \div 2)

\* int(float): truncation toward zero.
TruncHalves(h) == IF h >= 0 THEN h \div 2 ELSE 0 - ((0 - h) \div 2)

\* A variant that falls back to the default instead of raising.
coerce_capacity_lenient(value, default) ==
    CASE value.tag = "absent" -> Ok(default)
      [] value.tag \in {"int", "bool"} -> Ok(value.n)
      [] value.tag = "float" -> Ok(TruncHalves(value.n))
      [] value.tag = "str" /\ ParseInt(value.s).ok -> ParseInt(value.s)
      [] OTHER -> Ok(default)

\* _coerce_capacity(value, default=...)
coerce_capacity(value, default) ==
    CASE value.tag = "absent" -> Ok(default)
      [] value.tag \in {"int", "bool"} -> Ok(value.n)
      [] value.tag = "float" -> Ok(TruncHalves(value.n))
      [] value.tag = "inf" -> Fail("OverflowError")
      [] value.tag = "nan" -> Fail("ValueError")
      [] value.tag = "str" /\ Strip(value.s) # <<>> -> ParseInt(value.s)
      [] OTHER -> Fail("ValueError")

Max(a, b) == IF a >= b THEN a ELSE b

\* ------------------------------------------------------------ the inputs
FloatHalves == {-3, -1, 5}

Strings ==
    { <<>>, <<" ">>, <<"2">>, <<" ", "3", " ">>, <<"-", "1">>, <<"x">>, <<"1", ".", "5">> }

RawValues ==
    {Absent, InfV, NanV, DictV, ListV, BoolV(1)}
        \cup {IntV(k) : k \in (0 - 1)..MaxCap}
        \cup {FloatV(h) : h \in FloatHalves}
        \cup {StrV(s) : s \in Strings}

Payload(d, mn, mx) == [desiredCapacity |-> d, minCapacity |-> mn, maxCapacity |-> mx]

AllPayloads == {Payload(d, mn, mx) : d \in RawValues, mn \in RawValues, mx \in RawValues}

\* The two payloads the schedules deliver, and two hand-written ones.
start_payload == Payload(IntV(2), IntV(1), Absent)
stop_payload == Payload(IntV(0), IntV(0), Absent)

ScheduledPayloads ==
    { start_payload, stop_payload,
      Payload(StrV(<<"3">>), Absent, IntV(1)),
      Payload(DictV, IntV(1), Absent) }

\* MAX_CAPACITY in the function's environment: unset, or the text the stack
\* wrote there.
EnvUnset == <<>>
EnvValues == {EnvUnset, <<"0">>, <<"2">>, <<"6">>}

\* Module globals _CLUSTER_NAME, _NODEGROUP_NAME, _MAX_CAPACITY.
LoadConfig(envMax) ==
    [ CLUSTER_NAME |-> "cluster",
      NODEGROUP_NAME |-> "workers",
      MAX_CAPACITY |-> ParseInt(IF envMax = EnvUnset THEN <<"4">> ELSE envMax).v ]

\* The nodegroup as the stack creates it, and one edited by hand.
Scaling(mn, mx, d) == [minSize |-> mn, maxSize |-> mx, desiredSize |-> d]

InitialScalings(c) == { Scaling(0, c.MAX_CAPACITY, 0), Scaling(1, 1, 1) }

\* Errors update_nodegroup_config raises.
ApiErrors == {"ResourceNotFoundException", "AccessDeniedException",
              "ThrottlingException", "InvalidParameterException"}

\* ------------------------------------------------------------- the state
VARIABLES
    cfg,          \* the module globals of the function
    nodegroup,    \* the nodegroup's scalingConfig held by EKS
    nodegroup0,   \* the scalingConfig before any invocation (history)
    pc,           \* where each invocation stands
    event,        \* each invocation's payload
    locals,       \* desired_capacity, min_capacity, requested_max, max_capacity
    calls,        \* the EKS API calls each invocation has issued, in order
    response,     \* what EKS answered to the invocation's call: <<>>, <<"ok">>, <<error>>
    result,       \* the dict the invocation returned: <<>> or <<dict>>
    error,        \* the exception the invocation raised: <<>> or <<kind>>
    applied,      \* the invocations whose update EKS applied, in landing order (history)
    appliedState  \* the scalingConfig right after each invocation's update landed (history)

vars == <<cfg, nodegroup, nodegroup0, pc, event, locals, calls, response, result,
          error, applied, appliedState>>

NoLocals ==
    [desired_capacity |-> 0, min_capacity |-> 0, requested_max |-> 0, max_capacity |-> 0]

InitWith(envs, delivered, payloads) ==
    /\ cfg \in {LoadConfig(e) : e \in envs}
    /\ nodegroup \in InitialScalings(cfg)
    /\ nodegroup0 = nodegroup
    /\ \E f \in [delivered -> payloads] :
           event = [p \in Invocations |-> IF p \in delivered THEN f[p] ELSE stop_payload]
    /\ pc = [p \in Invocations |-> IF p \in delivered THEN "delivered" ELSE "undelivered"]
    /\ locals = [p \in Invocations |-> NoLocals]
    /\ calls = [p \in Invocations |-> <<>>]
    /\ response = [p \in Invocations |-> <<>>]
    /\ result = [p \in Invocations |-> <<>>]
    /\ error = [p \in Invocations |-> <<>>]
    /\ applied = <<>>
    /\ appliedState = [p \in Invocations |-> <<>>]

\* Overlapping deliveries of the scheduled payloads.
Init == InitWith({EnvUnset, <<"2">>}, Invocations, ScheduledPayloads)

\* One delivery of an arbitrary payload.
InitOne == InitWith(EnvValues, {1}, AllPayloads)

\* ----------------------------------------------------------- the handler
NormResult(ok, err, l) == [ok |-> ok, err |-> err, locals |-> l]

Locals(d, mn, rm, mx) ==
    [desired_capacity |-> d, min_capacity |-> mn, requested_max |-> rm, max_capacity |-> mx]

\* Variants of lines 34-37: the maximum not widened to the desired count; the
\* minimum defaulting to 0; the ceiling hard-wired to 4.
on_event_normalize_nowiden(ev, c) ==
    LET d == coerce_capacity(ev.desiredCapacity, 0)
        mn == coerce_capacity(ev.minCapacity, d.v)
        rm == coerce_capacity(ev.maxCapacity, c.MAX_CAPACITY)
    IN  IF d.ok /\ mn.ok /\ rm.ok
        THEN NormResult(TRUE, "none", Locals(d.v, mn.v, rm.v, rm.v))
        ELSE NormResult(FALSE, "ValueError", NoLocals)

on_event_normalize_minzero(ev, c) ==
    LET d == coerce_capacity(ev.desiredCapacity, 0)
        mn == coerce_capacity(ev.minCapacity, 0)
        rm == coerce_capacity(ev.maxCapacity, c.MAX_CAPACITY)
    IN  IF d.ok /\ mn.ok /\ rm.ok
        THEN NormResult(TRUE, "none", Locals(d.v, mn.v, rm.v, Max(d.v, rm.v)))
        ELSE NormResult(FALSE, "ValueError", NoLocals)

on_event_normalize_fixedmax(ev, c) ==
    LET d == coerce_capacity(ev.desiredCapacity, 0)
        mn == coerce_capacity(ev.minCapacity, d.v)
        rm == coerce_capacity(ev.maxCapacity, ParseInt(<<"4">>).v)
    IN  IF d.ok /\ mn.ok /\ rm.ok
        THEN NormResult(TRUE, "none", Locals(d.v, mn.v, rm.v, Max(d.v, rm.v)))
        ELSE NormResult(FALSE, "ValueError", NoLocals)

\* on_event, lines 34-37: the three coercions in order, then the widening.
on_event_normalize(ev, c) ==
    LET d == coerce_capacity(ev.desiredCapacity, 0)
        mn == coerce_capacity(ev.minCapacity, d.v)
        rm == coerce_capacity(ev.maxCapacity, c.MAX_CAPACITY)
    IN  IF ~d.ok THEN NormResult(FALSE, d.err, NoLocals)
        ELSE IF ~mn.ok THEN NormResult(FALSE, mn.err, NoLocals)
        ELSE IF ~rm.ok THEN NormResult(FALSE, rm.err, NoLocals)
        ELSE NormResult(TRUE, "none", Locals(d.v, mn.v, rm.v, Max(d.v, rm.v)))

\* Variants of the call: one that never lowers the maxSize it finds on the
\* nodegroup, one that adds the desired count to the current size.
update_request_keepmax(c, l) ==
    [ op |-> "UpdateNodegroupConfig",
      clusterName |-> c.CLUSTER_NAME,
      nodegroupName |-> c.NODEGROUP_NAME,
      scalingConfig |->
          Scaling(l.min_capacity, Max(l.max_capacity, nodegroup.maxSize), l.desired_capacity) ]

update_request_delta(c, l) ==
    [ op |-> "UpdateNodegroupConfig",
      clusterName |-> c.CLUSTER_NAME,
      nodegroupName |-> c.NODEGROUP_NAME,
      scalingConfig |->
          Scaling(l.min_capacity, l.max_capacity, nodegroup.desiredSize + l.desired_capacity) ]

\* The keyword arguments of _EKS.update_nodegroup_config, lines 48-56.
update_request(c, l) ==
    [ op |-> "UpdateNodegroupConfig",
      clusterName |-> c.CLUSTER_NAME,
      nodegroupName |-> c.NODEGROUP_NAME,
      scalingConfig |-> Scaling(l.min_capacity, l.max_capacity, l.desired_capacity) ]

\* A variant that reports the requested maximum, not the widened one.
on_event_result_requested(c, l) ==
    [ cluster |-> c.CLUSTER_NAME,
      nodegroup |-> c.NODEGROUP_NAME,
      desired |-> l.desired_capacity,
      min |-> l.min_capacity,
      max |-> l.requested_max ]

\* The returned dict, lines 58-64.
on_event_result(c, l) ==
    [ cluster |-> c.CLUSTER_NAME,
      nodegroup |-> c.NODEGROUP_NAME,
      desired |-> l.desired_capacity,
      min |-> l.min_capacity,
      max |-> l.max_capacity ]

\* on_event up to the API call: the payload normalizes, or the handler raises.
Normalize(p) ==
    /\ pc[p] = "delivered"
    /\ LET n == on_event_normalize(event[p], cfg)
       IN  IF n.ok
           THEN /\ locals' = [locals EXCEPT ![p] = n.locals]
                /\ pc' = [pc EXCEPT ![p] = "normalized"]
                /\ error' = error
           ELSE /\ error' = [error EXCEPT ![p] = <<n.err>>]
                /\ pc' = [pc EXCEPT ![p] = "raised"]
                /\ locals' = locals
    /\ UNCHANGED <<cfg, nodegroup, nodegroup0, event, calls, response, result,
                   applied, appliedState>>

\* The handler sends the update call and waits for the answer.
CallUpdate(p) ==
    /\ pc[p] = "normalized"
    /\ calls' = [calls EXCEPT ![p] = Append(@, update_request(cfg, locals[p]))]
    /\ pc' = [pc EXCEPT ![p] = "calling"]
    /\ UNCHANGED <<cfg, nodegroup, nodegroup0, event, locals, response, result,
                   error, applied, appliedState>>

\* EKS applies the call: the scalingConfig is set to the values sent.
EksApply(p) ==
    /\ pc[p] = "calling"
    /\ response[p] = <<>>
    /\ nodegroup' = calls[p][Len(calls[p])].scalingConfig
    /\ response' = [response EXCEPT ![p] = <<"ok">>]
    /\ applied' = Append(applied, p)
    /\ appliedState' = [appliedState EXCEPT ![p] = <<nodegroup'>>]
    /\ UNCHANGED <<cfg, nodegroup0, pc, event, locals, calls, result, error>>

\* EKS applies the call but the answer never arrives: the client times out.
EksApplyNoAnswer(p) ==
    /\ pc[p] = "calling"
    /\ response[p] = <<>>
    /\ nodegroup' = calls[p][Len(calls[p])].scalingConfig
    /\ response' = [response EXCEPT ![p] = <<"ReadTimeoutError">>]
    /\ applied' = Append(applied, p)
    /\ appliedState' = [appliedState EXCEPT ![p] = <<nodegroup'>>]
    /\ UNCHANGED <<cfg, nodegroup0, pc, event, locals, calls, result, error>>

\* EKS refuses the call: nothing changes.
EksReject(p) ==
    /\ pc[p] = "calling"
    /\ response[p] = <<>>
    /\ \E e \in ApiErrors : response' = [response EXCEPT ![p] = <<e>>]
    /\ UNCHANGED <<cfg, nodegroup, nodegroup0, pc, event, locals, calls, result,
                   error, applied, appliedState>>

\* The call returns and the handler returns its dict.
Return(p) ==
    /\ pc[p] = "calling"
    /\ response[p] = <<"ok">>
    /\ result' = [result EXCEPT ![p] = <<on_event_result(cfg, locals[p])>>]
    /\ pc' = [pc EXCEPT ![p] = "returned"]
    /\ UNCHANGED <<cfg, nodegroup, nodegroup0, event, locals, calls, response,
                   error, applied, appliedState>>

\* A variant that sends the call again when EKS throttles.
RaiseOrRetry(p) ==
    /\ pc[p] = "calling"
    /\ response[p] # <<>>
    /\ response[p] # <<"ok">>
    /\ IF response[p] = <<"ThrottlingException">>
       THEN /\ pc' = [pc EXCEPT ![p] = "normalized"]
            /\ response' = [response EXCEPT ![p] = <<>>]
            /\ error' = error
       ELSE /\ pc' = [pc EXCEPT ![p] = "raised"]
            /\ response' = response
            /\ error' = [error EXCEPT ![p] = response[p]]
    /\ UNCHANGED <<cfg, nodegroup, nodegroup0, event, locals, calls, result, applied,
                   appliedState>>

\* The call raises and the exception leaves the handler.
Raise(p) ==
    /\ pc[p] = "calling"
    /\ response[p] # <<>>
    /\ response[p] # <<"ok">>
    /\ error' = [error EXCEPT ![p] = response[p]]
    /\ pc' = [pc EXCEPT ![p] = "raised"]
    /\ UNCHANGED <<cfg, nodegroup, nodegroup0, event, locals, calls, response,
                   result, applied, appliedState>>

Next ==
    \E p \in Invocations :
        \/ Normalize(p)
        \/ CallUpdate(p)
        \/ EksApply(p)
        \/ EksApplyNoAnswer(p)
        \/ EksReject(p)
        \/ Return(p)
        \/ Raise(p)

Spec == Init /\ [][Next]_vars

SpecOne == InitOne /\ [][Next]_vars

\* ------------------------------------------------------------ properties
\* The invocation got past lines 34-37.
NormalizedOk(p) ==
    \/ pc[p] \in {"normalized", "calling", "returned"}
    \/ pc[p] = "raised" /\ calls[p] # <<>>

Envelope(p) ==
    Scaling(locals[p].min_capacity, locals[p].max_capacity, locals[p].desired_capacity)

\* The shapes that are no integer: a dict, a list, a str that is empty, blank
\* or no integer literal.
NotAnInteger(v) ==
    \/ v.tag \in {"dict", "list"}
    \/ v.tag = "str" /\ ~ParseInt(v.s).ok

HasBadField(ev) ==
    NotAnInteger(ev.desiredCapacity) \/ NotAnInteger(ev.minCapacity)
        \/ NotAnInteger(ev.maxCapacity)

\* Every value _coerce_capacity raises on: the shapes above and the floats
\* inf and nan.
CoercionFails(v) == NotAnInteger(v) \/ v.tag \in {"inf", "nan"}

\* The field on which the handler stops: the first one, in the order desired,
\* min, max, that does not coerce.
FirstFailing(ev) ==
    IF CoercionFails(ev.desiredCapacity) THEN ev.desiredCapacity
    ELSE IF CoercionFails(ev.minCapacity) THEN ev.minCapacity
    ELSE ev.maxCapacity

\* The value a present field stands for.
Resolved(v) == coerce_capacity(v, 0).v

\* C1 as stated: every normalized envelope, and every envelope sent, has
\* minimum <= desired <= maximum.
C1_Original ==
    \A p \in Invocations :
        NormalizedOk(p) =>
            /\ locals[p].min_capacity <= locals[p].desired_capacity
            /\ locals[p].desired_capacity <= locals[p].max_capacity

\* C1 amended: every normalized envelope, and every envelope sent, has
\* desired <= maximum; minimum <= desired holds when minCapacity is absent,
\* and with minCapacity present exactly when its value is at most desired.
C1_DesiredWithinMaximum ==
    \A p \in Invocations :
        /\ NormalizedOk(p) =>
            /\ locals[p].desired_capacity <= locals[p].max_capacity
            /\ event[p].minCapacity = Absent =>
                   locals[p].min_capacity <= locals[p].desired_capacity
            /\ event[p].minCapacity # Absent =>
                   (locals[p].min_capacity <= locals[p].desired_capacity
                        <=> Resolved(event[p].minCapacity) <= locals[p].desired_capacity)
        /\ \A i \in 1..Len(calls[p]) :
               calls[p][i].scalingConfig.desiredSize <= calls[p][i].scalingConfig.maxSize

\* An envelope with minimum above maximum was sent and applied.
C1_Witness ==
    \E p \in Invocations :
        /\ pc[p] = "returned"
        /\ nodegroup.minSize > nodegroup.maxSize
        /\ nodegroup.desiredSize <= nodegroup.maxSize

AllFinished == \A p \in Invocations : pc[p] \in {"returned", "raised"}

\* C3: once every overlapping invocation has finished, the nodegroup's
\* scalingConfig is exactly the envelope of the invocation whose update
\* landed last (its three fields, nothing of another envelope), or the
\* configuration it started with when no update landed.
C3_LastWriteWins ==
    AllFinished =>
        IF applied = <<>> THEN nodegroup = nodegroup0
        ELSE nodegroup = Envelope(applied[Len(applied)])

\* Both updates landed, the second invocation's before the first's, with
\* differing envelopes.
C3_Witness ==
    /\ AllFinished
    /\ Len(applied) >= 2
    /\ applied[1] = 2
    /\ applied[Len(applied)] = 1
    /\ Envelope(1) # Envelope(2)
    /\ nodegroup = Envelope(1)

\* C4: an absent minCapacity resolves to the resolved desired value (not 0);
\* a present one is used as coerced, unclamped.
C4_MinimumDefault ==
    \A p \in Invocations :
        NormalizedOk(p) =>
            /\ event[p].minCapacity = Absent =>
                   locals[p].min_capacity = locals[p].desired_capacity
            /\ event[p].minCapacity # Absent =>
                   locals[p].min_capacity = Resolved(event[p].minCapacity)
            /\ \A i \in 1..Len(calls[p]) :
                   calls[p][i].scalingConfig.minSize = locals[p].min_capacity

\* minCapacity absent, desired 3: the minimum sent is 3.
C4_Witness ==
    \E p \in Invocations :
        /\ event[p].minCapacity = Absent
        /\ event[p].desiredCapacity = IntV(3)
        /\ calls[p] # <<>>
        /\ calls[p][1].scalingConfig.minSize = 3

\* C5: the maximum is the larger of the resolved desiredCapacity and the
\* resolved maxCapacity, an absent maxCapacity resolving to MAX_CAPACITY: with
\* maxCapacity absent the maximum is MAX_CAPACITY unless desired exceeds it,
\* and then it is desired.
C5_MaximumWidened ==
    \A p \in Invocations :
        NormalizedOk(p) =>
            LET d == locals[p].desired_capacity
                rm == IF event[p].maxCapacity = Absent THEN cfg.MAX_CAPACITY
                      ELSE Resolved(event[p].maxCapacity)
            IN  /\ d >= rm => locals[p].max_capacity = d
                /\ d < rm => locals[p].max_capacity = rm
                /\ event[p].maxCapacity = Absent /\ d > cfg.MAX_CAPACITY =>
                       locals[p].max_capacity = d
                /\ event[p].maxCapacity = Absent /\ d <= cfg.MAX_CAPACITY =>
                       locals[p].max_capacity = cfg.MAX_CAPACITY

\* maxCapacity absent, ceiling 2, desired 3: the maximum is 3.
C5_Witness ==
    \E p \in Invocations :
        /\ NormalizedOk(p)
        /\ event[p].maxCapacity = Absent
        /\ cfg.MAX_CAPACITY = 2
        /\ locals[p].desired_capacity = 3
        /\ locals[p].max_capacity = 3

\* C6: two invocations with the same payload that both return have returned
\* the same dict, and the scalingConfig right after the one's update landed
\* equals the scalingConfig right after the other's.
C6_Idempotent ==
    \A p, q \in Invocations :
        (event[p] = event[q] /\ pc[p] = "returned" /\ pc[q] = "returned") =>
            /\ result[p] = result[q]
            /\ appliedState[p] = appliedState[q]
            /\ appliedState[p] = <<Envelope(p)>>

\* Both invocations applied the start payload to a nodegroup that differed from it.
C6_Witness ==
    /\ event[1] = start_payload
    /\ event[2] = start_payload
    /\ pc[1] = "returned"
    /\ pc[2] = "returned"
    /\ nodegroup0 # nodegroup
    /\ Len(applied) >= 2

IsApiError(r) == r # <<>> /\ r # <<"ok">>

\* C7: a returned dict carries the identity and the three sizes of the update
\* call the invocation sent, and that call succeeded; an invocation whose call
\* failed returns nothing and raises the call's error.
C7_ResultEchoesCall ==
    \A p \in Invocations :
        /\ result[p] # <<>> =>
            /\ response[p] = <<"ok">>
            /\ p \in {applied[i] : i \in 1..Len(applied)}
            /\ Len(calls[p]) = 1
            /\ result[p][1].cluster = calls[p][1].clusterName
            /\ result[p][1].nodegroup = calls[p][1].nodegroupName
            /\ result[p][1].min = calls[p][1].scalingConfig.minSize
            /\ result[p][1].desired = calls[p][1].scalingConfig.desiredSize
            /\ result[p][1].max = calls[p][1].scalingConfig.maxSize
        /\ IsApiError(response[p]) =>
            /\ result[p] = <<>>
            /\ pc[p] \in {"calling", "raised"}
            /\ pc[p] = "raised" => error[p] = response[p]

\* One invocation returned a widened envelope, the other raised the API's error.
C7_Witness ==
    \E p, q \in Invocations :
        /\ pc[p] = "returned"
        /\ result[p][1].max > locals[p].requested_max
        /\ pc[q] = "raised"
        /\ error[q] = <<"AccessDeniedException">>

\* C8 as stated: the maximum sent never exceeds MAX_CAPACITY, and so neither
\* does the nodegroup's maxSize once an update has landed.
C8_Original ==
    /\ \A p \in Invocations :
           \A i \in 1..Len(calls[p]) :
               calls[p][i].scalingConfig.maxSize <= cfg.MAX_CAPACITY
    /\ applied # <<>> => nodegroup.maxSize <= cfg.MAX_CAPACITY

\* C8 amended: the maximum exceeds MAX_CAPACITY exactly when the resolved
\* desiredCapacity or a present maxCapacity exceeds it, and is then the larger
\* of the two; otherwise it is at most MAX_CAPACITY.
C8_CeilingIsDefault ==
    \A p \in Invocations :
        NormalizedOk(p) =>
            LET over == \/ locals[p].desired_capacity > cfg.MAX_CAPACITY
                        \/ /\ event[p].maxCapacity # Absent
                           /\ Resolved(event[p].maxCapacity) > cfg.MAX_CAPACITY
            IN  /\ over <=> locals[p].max_capacity > cfg.MAX_CAPACITY
                /\ \A i \in 1..Len(calls[p]) :
                       over <=> calls[p][i].scalingConfig.maxSize > cfg.MAX_CAPACITY

\* A desired count above the ceiling was applied: maxSize is above MAX_CAPACITY.
C8_Witness ==
    \E p \in Invocations :
        /\ pc[p] = "returned"
        /\ event[p].maxCapacity = Absent
        /\ nodegroup.maxSize > cfg.MAX_CAPACITY
        /\ nodegroup.maxSize = locals[p].desired_capacity

\* C9 as stated: every envelope produced, and every envelope sent, has
\* minimum, desired and maximum >= 0.
C9_Original ==
    \A p \in Invocations :
        /\ NormalizedOk(p) =>
            /\ locals[p].min_capacity >= 0
            /\ locals[p].desired_capacity >= 0
            /\ locals[p].max_capacity >= 0
        /\ \A i \in 1..Len(calls[p]) :
            /\ calls[p][i].scalingConfig.minSize >= 0
            /\ calls[p][i].scalingConfig.desiredSize >= 0
            /\ calls[p][i].scalingConfig.maxSize >= 0

\* A field that is absent or stands for a number above -1.
AboveMinusOne(v) ==
    \/ v.tag \in {"absent", "bool"}
    \/ v.tag = "int" /\ v.n >= 0
    \/ v.tag = "float" /\ v.n > 0 - 2
    \/ v.tag = "str" /\ \A i \in 1..Len(v.s) : v.s[i] # "-"

\* C9 amended: every envelope produced and sent holds integers; they are all
\* >= 0 when MAX_CAPACITY is >= 0 and every present field stands for a number
\* above -1; a negative desiredCapacity or minCapacity is passed on as it is.
C9_IntegersPassedThrough ==
    \A p \in Invocations :
        NormalizedOk(p) =>
            /\ locals[p].min_capacity \in Int
            /\ locals[p].desired_capacity \in Int
            /\ locals[p].max_capacity \in Int
            /\ ( /\ cfg.MAX_CAPACITY >= 0
                 /\ AboveMinusOne(event[p].desiredCapacity)
                 /\ AboveMinusOne(event[p].minCapacity)
                 /\ AboveMinusOne(event[p].maxCapacity) ) =>
                   /\ locals[p].min_capacity >= 0
                   /\ locals[p].desired_capacity >= 0
                   /\ locals[p].max_capacity >= 0
            /\ \A v \in {IntV(0 - 1), StrV(<<"-", "1">>), FloatV(0 - 3)} :
                   /\ event[p].desiredCapacity = v => locals[p].desired_capacity = 0 - 1
                   /\ event[p].minCapacity = v => locals[p].min_capacity = 0 - 1

\* A negative desired count and a negative minimum reached EKS.
C9_Witness ==
    \E p \in Invocations :
        /\ event[p].desiredCapacity = StrV(<<"-", "1">>)
        /\ event[p].minCapacity = FloatV(0 - 3)
        /\ response[p] = <<"ok">>
        /\ nodegroup.desiredSize = 0 - 1
        /\ nodegroup.minSize = 0 - 1

\* C10: an invocation issues at most one API call, always the update; once it
\* has finished it has issued exactly one when its payload normalized and none
\* when it did not, whatever EKS answered.
C10_OneUpdateCall ==
    \A p \in Invocations :
        /\ Len(calls[p]) <= 1
        /\ \A i \in 1..Len(calls[p]) : calls[p][i].op = "UpdateNodegroupConfig"
        /\ pc[p] \in {"returned", "raised"} =>
               Len(calls[p]) = IF on_event_normalize(event[p], cfg).ok THEN 1 ELSE 0
        /\ (pc[p] = "raised" /\ IsApiError(response[p])) => Len(calls[p]) = 1

\* A throttled invocation ended after its single call; another, invalid one issued none.
C10_Witness ==
    \E p, q \in Invocations :
        /\ pc[p] = "raised"
        /\ error[p] = <<"ThrottlingException">>
        /\ Len(calls[p]) = 1
        /\ pc[q] = "raised"
        /\ error[q] = <<"ValueError">>
        /\ calls[q] = <<>>

====
